---- MODULE Spec2Model ----
(***************************************************************************)
(* A model of the bnbt NBT codec: the Tag identifier (src/src/tag.rs), the *)
(* Value tree and its builders (src/src/value.rs), the error kinds         *)
(* (src/src/error.rs) and the endianness-parameterised codec               *)
(* (src/src/codec/mod.rs).                                                 *)
(*                                                                         *)
(* Representation.  A byte is a number 0..255 and a byte channel is a      *)
(* sequence of bytes.  A Rust str/String is the sequence of its UTF-8      *)
(* bytes.  i8, i16, u16, i32 and u32 are integers; the 64-bit scalars and  *)
(* both floating-point types are their two's-complement / IEEE-754 bit     *)
(* patterns written as base-256 digits, most significant first (the model  *)
(* checker's integers are 32 bits wide).  A BTreeMap is the sequence of    *)
(* its <<key, value>> entries in ascending key order.                      *)
(***************************************************************************)
EXTENDS Integers, Sequences, FiniteSets, TLC

VARIABLES
    endian,     \* NBTCodec.endian: "Big" or "Little"
    pc,         \* where the caller is: "idle", or the call that just returned
    val,        \* the Value tree the caller holds
    origin,     \* history: how val was first made: "direct", "compound", "list"
    hist,       \* history of a tree begun by compound(): per key, the value
                \* most recently inserted and whether it replaced an earlier one
    ares,       \* outcome of the last builder call on val
    name,       \* the Option<Cow<str>> handed to write_tag
    wres,       \* outcome of the last write call, with the writer channel
    rres,       \* outcome of the last read call, with the reader channel
    raw,        \* the raw input handed to the last call (bytes, header, string)
    tagIn,      \* the byte last handed to Tag::try_from
    tres,       \* outcome of the last Tag::try_from
    sent,       \* the entries written one after another to one writer, each
                \* with the outcome of its write_tag and the writer after it
    reads       \* the outcomes of the consecutive read_tag calls on the bytes
                \* written, each with the reader after it

vars == <<endian, pc, val, origin, hist, ares, name, wres, rres, raw, tagIn, tres,
          sent, reads>>

-----------------------------------------------------------------------------
(* Bounds of the model.                                                    *)

\* longest list the builder actions grow (push / extend are refused beyond)
MaxListLen == 2
\* largest capacity of a bounded writer (a fixed-size slice); -1 is a Vec
MaxCap == 6
\* how far past u16::MAX the long strings handed to write_string reach
MaxOver == 1
\* most entries written one after another to one channel
MaxEntries == 2

(* Widths of the program's integer types.                                  *)
U16Max == 65535
I16Max == 32767

-----------------------------------------------------------------------------
(* Errors: NBTErrorKind.  arg carries the variant's payload.               *)

NoErr == [kind |-> "None", arg |-> <<>>]

\* usize on a 64-bit target, as 8 base-256 digits, most significant first
RECURSIVE Digits(_, _)
Digits(n, w) == IF w = 0 THEN <<>> ELSE Append(Digits(n \div 256, w - 1), n % 256)

\* two's-complement digits of a signed integer of w bytes (w <= 4)
SignedDigits(v, w) ==
    IF v >= 0 THEN Digits(v, w)
    ELSE LET \* v + 2^(8w-1) is the value without its sign bit
             low  == IF w = 1 THEN v + 128
                     ELSE IF w = 2 THEN v + 32768
                     ELSE (v + 2147483647) + 1
             d    == Digits(low, w)
         IN  [d EXCEPT ![1] = @ + 128]

RECURSIVE Unsigned(_)
Unsigned(d) == IF d = <<>> THEN 0
               ELSE Unsigned(SubSeq(d, 1, Len(d) - 1)) * 256 + d[Len(d)]

Signed(d) == IF d[1] >= 128
             THEN Unsigned([d EXCEPT ![1] = @ - 128]) -
                  (IF Len(d) = 1 THEN 128 ELSE IF Len(d) = 2 THEN 32768 ELSE 2147483647) -
                  (IF Len(d) = 4 THEN 1 ELSE 0)
             ELSE Unsigned(d)

\* `x as usize` for an i32 x: sign extension to 64 bits
as_usize(x) == (IF x < 0 THEN <<255, 255, 255, 255>> ELSE <<0, 0, 0, 0>>) \o SignedDigits(x, 4)

io == [kind |-> "IO", arg |-> <<>>]
from_utf8 == [kind |-> "FromUTF8", arg |-> <<>>]
invalid_tag_id(id) == [kind |-> "InvalidTagID", arg |-> <<id>>]
invalid_string_length(len) == [kind |-> "InvalidStringLength", arg |-> len]
custom_msg(msg) == [kind |-> "Custom", arg |-> msg]

-----------------------------------------------------------------------------
(* Tag: the 13 kinds in declaration order; #[repr(u8)] numbers them 0..12. *)

Tag == <<"End", "Byte", "Short", "Int", "Long", "Float", "Double", "ByteArray",
         "String", "List", "Compound", "IntArray", "LongArray">>

\* `tag as u8`
as_u8(tag) == (CHOOSE i \in 1..Len(Tag) : Tag[i] = tag) - 1

\* a mutant of try_from: two arms of the match exchanged
try_from_swapped(value) ==
    CASE value = 11 -> [ok |-> TRUE, val |-> "LongArray", err |-> NoErr]
      [] value = 12 -> [ok |-> TRUE, val |-> "IntArray", err |-> NoErr]
      [] value \in 0..10 -> [ok |-> TRUE, val |-> Tag[value + 1], err |-> NoErr]
      [] OTHER -> [ok |-> FALSE, val |-> "", err |-> invalid_tag_id(value)]

\* impl TryFrom<u8> for Tag
try_from(value) ==
    CASE value = 0 -> [ok |-> TRUE, val |-> "End", err |-> NoErr]
      [] value = 1 -> [ok |-> TRUE, val |-> "Byte", err |-> NoErr]
      [] value = 2 -> [ok |-> TRUE, val |-> "Short", err |-> NoErr]
      [] value = 3 -> [ok |-> TRUE, val |-> "Int", err |-> NoErr]
      [] value = 4 -> [ok |-> TRUE, val |-> "Long", err |-> NoErr]
      [] value = 5 -> [ok |-> TRUE, val |-> "Float", err |-> NoErr]
      [] value = 6 -> [ok |-> TRUE, val |-> "Double", err |-> NoErr]
      [] value = 7 -> [ok |-> TRUE, val |-> "ByteArray", err |-> NoErr]
      [] value = 8 -> [ok |-> TRUE, val |-> "String", err |-> NoErr]
      [] value = 9 -> [ok |-> TRUE, val |-> "List", err |-> NoErr]
      [] value = 10 -> [ok |-> TRUE, val |-> "Compound", err |-> NoErr]
      [] value = 11 -> [ok |-> TRUE, val |-> "IntArray", err |-> NoErr]
      [] value = 12 -> [ok |-> TRUE, val |-> "LongArray", err |-> NoErr]
      [] OTHER -> [ok |-> FALSE, val |-> "", err |-> invalid_tag_id(value)]

-----------------------------------------------------------------------------
(* Value: a variant name and its payload (always a sequence).              *)

VEnd == [kind |-> "End", v |-> <<>>]
VByte(x) == [kind |-> "Byte", v |-> <<x>>]
VShort(x) == [kind |-> "Short", v |-> <<x>>]
VInt(x) == [kind |-> "Int", v |-> <<x>>]
VLong(digits) == [kind |-> "Long", v |-> digits]
VFloat(digits) == [kind |-> "Float", v |-> digits]
VDouble(digits) == [kind |-> "Double", v |-> digits]
VByteArray(xs) == [kind |-> "ByteArray", v |-> xs]
VString(s) == [kind |-> "String", v |-> s]
VList(xs) == [kind |-> "List", v |-> xs]
VCompound(map) == [kind |-> "Compound", v |-> map]
VIntArray(xs) == [kind |-> "IntArray", v |-> xs]
VLongArray(xs) == [kind |-> "LongArray", v |-> xs]

\* Value::tag
tag(value) ==
    CASE value.kind = "End" -> "End"
      [] value.kind = "Byte" -> "Byte"
      [] value.kind = "Short" -> "Short"
      [] value.kind = "Int" -> "Int"
      [] value.kind = "Long" -> "Long"
      [] value.kind = "Float" -> "Float"
      [] value.kind = "Double" -> "Double"
      [] value.kind = "ByteArray" -> "ByteArray"
      [] value.kind = "String" -> "String"
      [] value.kind = "List" -> "List"
      [] value.kind = "Compound" -> "Compound"
      [] value.kind = "IntArray" -> "IntArray"
      [] value.kind = "LongArray" -> "LongArray"

-----------------------------------------------------------------------------
(* Byte channels.  A writer is a Vec (cap = -1, never full) or a slice of  *)
(* cap bytes; a reader is a byte slice and a position.  fail and after are *)
(* history fields: the first failure raised while the channel was in use,  *)
(* and the number of channel operations attempted after it.                *)

Writer(cap) == [out |-> <<>>, cap |-> cap, fail |-> <<>>, after |-> 0]
\* drain: whether a failed read_exact consumes the rest of the input (std
\* leaves the number of bytes consumed by a failed read_exact unspecified)
Reader(buf, drain) == [buf |-> buf, pos |-> 0, drain |-> drain, fail |-> <<>>, after |-> 0]

\* the failure e is constructed while channel ch is in use
Raised(ch, e) == [ch EXCEPT !.fail = IF @ = <<>> THEN <<e>> ELSE @]
Used(ch) == [ch EXCEPT !.after = IF ch.fail = <<>> THEN @ ELSE @ + 1]

WOk(ch) == [ok |-> TRUE, ch |-> ch, err |-> NoErr]
WErr(ch, e) == [ok |-> FALSE, ch |-> Raised(ch, e), err |-> e]
ROk(ch, x) == [ok |-> TRUE, val |-> x, ch |-> ch, err |-> NoErr]
RErr(ch, e) == [ok |-> FALSE, val |-> <<>>, ch |-> Raised(ch, e), err |-> e]

\* Write::write_all, and the `?` that turns its io::Error into NBTError::io
write_all(w, bytes) ==
    LET u == Used(w) IN
    IF w.cap = -1 \/ Len(w.out) + Len(bytes) <= w.cap
    THEN WOk([u EXCEPT !.out = @ \o bytes])
    ELSE WErr([u EXCEPT !.out = @ \o SubSeq(bytes, 1, w.cap - Len(w.out))], io)

\* Read::read_exact, and the `?` that turns its io::Error into NBTError::io
read_exact(r, n) ==
    LET u == Used(r) IN
    IF r.pos + n <= Len(r.buf)
    THEN ROk([u EXCEPT !.pos = @ + n], SubSeq(r.buf, r.pos + 1, r.pos + n))
    ELSE RErr([u EXCEPT !.pos = IF r.drain THEN Len(r.buf) ELSE @], io)

-----------------------------------------------------------------------------
(* Fixed-width scalars (gen_nbt_codec_impl).                               *)

RECURSIVE Reverse(_)
Reverse(s) == IF s = <<>> THEN <<>> ELSE Append(Reverse(Tail(s)), Head(s))

\* a mutant: the configured byte order is ignored
to_bytes_always_be(e, digits) == digits
\* to_be_bytes / to_le_bytes of most-significant-first digits
to_bytes(e, digits) == IF e = "Big" THEN digits ELSE Reverse(digits)
\* from_be_bytes / from_le_bytes, giving most-significant-first digits
from_bytes(e, buf) == IF e = "Big" THEN buf ELSE Reverse(buf)

\* read_<ty>: w bytes, as digits
read_digits(e, r, w) ==
    LET b == read_exact(r, w) IN
    IF ~b.ok THEN b ELSE ROk(b.ch, from_bytes(e, b.val))
write_digits(e, w, digits) == write_all(w, to_bytes(e, digits))

Value1(res, f(_)) == IF ~res.ok THEN res ELSE ROk(res.ch, f(res.val))

read_u8(e, r) == Value1(read_digits(e, r, 1), Unsigned)
read_i8(e, r) == Value1(read_digits(e, r, 1), Signed)
read_u16(e, r) == Value1(read_digits(e, r, 2), Unsigned)
read_i16(e, r) == Value1(read_digits(e, r, 2), Signed)
read_u32(e, r) == Value1(read_digits(e, r, 4), Unsigned)
read_i32(e, r) == Value1(read_digits(e, r, 4), Signed)
read_i64(e, r) == read_digits(e, r, 8)
read_f32(e, r) == read_digits(e, r, 4)
read_f64(e, r) == read_digits(e, r, 8)

write_u8(e, w, x) == write_digits(e, w, Digits(x, 1))
write_i8(e, w, x) == write_digits(e, w, SignedDigits(x, 1))
write_u16(e, w, x) == write_digits(e, w, Digits(x, 2))
write_i16(e, w, x) == write_digits(e, w, SignedDigits(x, 2))
write_u32(e, w, x) == write_digits(e, w, Digits(x, 4))
write_i32(e, w, x) == write_digits(e, w, SignedDigits(x, 4))
write_i64(e, w, x) == write_digits(e, w, x)
write_f32(e, w, x) == write_digits(e, w, x)
write_f64(e, w, x) == write_digits(e, w, x)

\* `x as u8` for an i8 x
i8_as_u8(x) == IF x < 0 THEN x + 256 ELSE x
\* a mutant: the byte is taken as it is, without the cast
u8_as_i8_nocast(b) == b
\* `b as i8` for a u8 b
u8_as_i8(b) == IF b >= 128 THEN b - 256 ELSE b
\* `x as i8` for a Tag discriminant
u8_as_i8_tag(t) == u8_as_i8(as_u8(t))
\* `n as u16` for a usize n
as_u16(n) == n % (U16Max + 1)

-----------------------------------------------------------------------------
(* Strings.                                                                *)

\* String::from_utf8's validation (well-formed UTF-8, Unicode table 3-7)
RECURSIVE valid_utf8(_)
valid_utf8(b) ==
    LET Cont(i) == i <= Len(b) /\ b[i] >= 128 /\ b[i] <= 191
        In(i, lo, hi) == i <= Len(b) /\ b[i] >= lo /\ b[i] <= hi
        Rest(n) == valid_utf8(SubSeq(b, n + 1, Len(b)))
        c == b[1]
    IN  IF b = <<>> THEN TRUE
        ELSE IF c <= 127 THEN Rest(1)
        ELSE IF c >= 194 /\ c <= 223 THEN Cont(2) /\ Rest(2)
        ELSE IF c = 224 THEN In(2, 160, 191) /\ Cont(3) /\ Rest(3)
        ELSE IF c = 237 THEN In(2, 128, 159) /\ Cont(3) /\ Rest(3)
        ELSE IF c >= 225 /\ c <= 239 THEN Cont(2) /\ Cont(3) /\ Rest(3)
        ELSE IF c = 240 THEN In(2, 144, 191) /\ Cont(3) /\ Cont(4) /\ Rest(4)
        ELSE IF c = 244 THEN In(2, 128, 143) /\ Cont(3) /\ Cont(4) /\ Rest(4)
        ELSE IF c >= 241 /\ c <= 243 THEN Cont(2) /\ Cont(3) /\ Cont(4) /\ Rest(4)
        ELSE FALSE

read_string(e, r) ==
    LET length == read_u16(e, r) IN
    IF ~length.ok THEN length ELSE
    LET buf == read_exact(length.ch, length.val) IN
    IF ~buf.ok THEN buf ELSE
    IF valid_utf8(buf.val) THEN ROk(buf.ch, buf.val) ELSE RErr(buf.ch, from_utf8)

write_string(e, w, value) ==
    LET a == write_u16(e, w, as_u16(Len(value))) IN
    IF ~a.ok THEN a ELSE write_all(a.ch, value)

-----------------------------------------------------------------------------
(* Arrays.  Sequences of the model are shorter than 2^31, so the casts     *)
(* `len as u32` and `len as i32` do not wrap.                              *)

Map(f(_), xs) == [i \in 1..Len(xs) |-> f(xs[i])]

read_byte_array(e, r) ==
    LET size == read_u32(e, r) IN
    IF ~size.ok THEN size ELSE
    LET buf == read_exact(size.ch, size.val) IN
    IF ~buf.ok THEN buf ELSE ROk(buf.ch, Map(u8_as_i8, buf.val))

write_byte_array(e, w, value) ==
    LET a == write_u32(e, w, Len(value)) IN
    IF ~a.ok THEN a ELSE write_all(a.ch, Map(i8_as_u8, value))

\* (0..size).map(|_| self.read_i32(reader)).collect(): stops at the first Err
RECURSIVE read_i32s(_, _, _, _)
read_i32s(e, r, n, acc) ==
    IF n = 0 THEN ROk(r, acc) ELSE
    LET x == read_i32(e, r) IN
    IF ~x.ok THEN x ELSE read_i32s(e, x.ch, n - 1, Append(acc, x.val))

read_int_array(e, r) ==
    LET size == read_u32(e, r) IN
    IF ~size.ok THEN size ELSE read_i32s(e, size.ch, size.val, <<>>)

\* the chunked double loop writes the elements in order
RECURSIVE write_i32s(_, _, _)
write_i32s(e, w, xs) ==
    IF xs = <<>> THEN WOk(w) ELSE
    LET a == write_i32(e, w, Head(xs)) IN
    IF ~a.ok THEN a ELSE write_i32s(e, a.ch, Tail(xs))

write_int_array(e, w, value) ==
    LET a == write_u32(e, w, Len(value)) IN
    IF ~a.ok THEN a ELSE write_i32s(e, a.ch, value)

RECURSIVE read_i64s(_, _, _, _)
read_i64s(e, r, n, acc) ==
    IF n = 0 THEN ROk(r, acc) ELSE
    LET x == read_i64(e, r) IN
    IF ~x.ok THEN x ELSE read_i64s(e, x.ch, n - 1, Append(acc, x.val))

read_long_array(e, r) ==
    LET size == read_u32(e, r) IN
    IF ~size.ok THEN size ELSE read_i64s(e, size.ch, size.val, <<>>)

RECURSIVE write_i64s(_, _, _)
write_i64s(e, w, xs) ==
    IF xs = <<>> THEN WOk(w) ELSE
    LET a == write_i64(e, w, Head(xs)) IN
    IF ~a.ok THEN a ELSE write_i64s(e, a.ch, Tail(xs))

write_long_array(e, w, value) ==
    LET a == write_u32(e, w, Len(value)) IN
    IF ~a.ok THEN a ELSE write_i64s(e, a.ch, value)

-----------------------------------------------------------------------------
(* BTreeMap<Cow<str>, Value>: entries in ascending key order.              *)

\* Ord for str: lexicographic on the bytes
RECURSIVE str_lt(_, _)
str_lt(a, b) ==
    IF b = <<>> THEN FALSE
    ELSE IF a = <<>> THEN TRUE
    ELSE IF a[1] # b[1] THEN a[1] < b[1]
    ELSE str_lt(Tail(a), Tail(b))

\* a mutant of BTreeMap::insert: an equal key is not replaced
map_insert_keep(map, k, x) ==
    LET lower == Cardinality({i \in 1..Len(map) : str_lt(map[i][1], k)})
    IN  SubSeq(map, 1, lower) \o << <<k, x>> >> \o SubSeq(map, lower + 1, Len(map))

\* BTreeMap::insert
map_insert(map, k, x) ==
    LET lower == Cardinality({i \in 1..Len(map) : str_lt(map[i][1], k)})
        hit   == lower < Len(map) /\ map[lower + 1][1] = k
    IN  SubSeq(map, 1, lower) \o << <<k, x>> >> \o
        SubSeq(map, lower + (IF hit THEN 2 ELSE 1), Len(map))

-----------------------------------------------------------------------------
(* Lists, compounds and the payload dispatch.                              *)

\* a mutant: no lower limit
list_length_ok_no_lower(length) == ~(length > I16Max)
\* a mutant: a count of 0 is refused as well
list_length_ok_positive(length) == ~(length <= 0 \/ length > I16Max)
\* the accepted range of a decoded list count
list_length_ok(length) == ~(length < 0 \/ length > I16Max)

\* a mutant: the scan reports the last mismatch
last_mismatch(list) ==
    LET bad == {i \in 1..Len(list) : tag(list[i]) # tag(list[1])}
    IN  IF bad = {} THEN 0 ELSE CHOOSE i \in bad : \A j \in bad : i >= j
\* the homogeneity scan of write_list: the first index (from 1) whose tag
\* differs from the first element's, or 0
first_mismatch(list) ==
    LET bad == {i \in 1..Len(list) : tag(list[i]) # tag(list[1])}
    IN  IF bad = {} THEN 0 ELSE CHOOSE i \in bad : \A j \in bad : i <= j

\* the message of the heterogeneous-list failure: index, expected, got
mismatch_msg(i, first_tag, got) == <<i, first_tag, got>>

RECURSIVE read_value(_, _, _), read_list(_, _), read_compound(_, _),
          read_elems(_, _, _, _, _), read_entries(_, _, _)

Wrap(res, C(_)) == IF ~res.ok THEN res ELSE ROk(res.ch, C(res.val))

read_value(e, r, t) ==
    CASE t = "End" -> ROk(r, VEnd)
      [] t = "Byte" -> Wrap(read_i8(e, r), VByte)
      [] t = "Short" -> Wrap(read_i16(e, r), VShort)
      [] t = "Int" -> Wrap(read_i32(e, r), VInt)
      [] t = "Long" -> Wrap(read_i64(e, r), VLong)
      [] t = "Float" -> Wrap(read_f32(e, r), VFloat)
      [] t = "Double" -> Wrap(read_f64(e, r), VDouble)
      [] t = "ByteArray" -> Wrap(read_byte_array(e, r), VByteArray)
      [] t = "String" -> Wrap(read_string(e, r), VString)
      [] t = "List" -> read_list(e, r)
      [] t = "Compound" -> read_compound(e, r)
      [] t = "IntArray" -> Wrap(read_int_array(e, r), VIntArray)
      [] t = "LongArray" -> Wrap(read_long_array(e, r), VLongArray)

\* a mutant: the list is closed with an End value, as a compound is
RECURSIVE read_elems_with_end(_, _, _, _, _)
read_elems_with_end(e, r, t, n, list) ==
    IF n <= 0 THEN ROk(r, IF list = <<>> THEN list ELSE Append(list, VEnd)) ELSE
    LET x == read_value(e, r, t) IN
    IF ~x.ok THEN x ELSE read_elems_with_end(e, x.ch, t, n - 1, Append(list, x.val))

\* a mutant: a failing element ends the list instead of the call
RECURSIVE read_elems_partial(_, _, _, _, _)
read_elems_partial(e, r, t, n, list) ==
    IF n <= 0 THEN ROk(r, list) ELSE
    LET x == read_value(e, r, t) IN
    IF ~x.ok THEN ROk(x.ch, list)
    ELSE read_elems_partial(e, x.ch, t, n - 1, Append(list, x.val))

\* for _ in 0..length { list.push(self.read_value(reader, &element_tag)?) }
read_elems(e, r, t, n, list) ==
    IF n <= 0 THEN ROk(r, list) ELSE
    LET x == read_value(e, r, t) IN
    IF ~x.ok THEN x ELSE read_elems(e, x.ch, t, n - 1, Append(list, x.val))

read_list(e, r) ==
    LET element_tag_id == read_i8(e, r) IN
    IF ~element_tag_id.ok THEN element_tag_id ELSE
    LET element_tag == try_from(i8_as_u8(element_tag_id.val)) IN
    IF ~element_tag.ok THEN RErr(element_tag_id.ch, element_tag.err) ELSE
    LET length == read_i32(e, element_tag_id.ch) IN
    IF ~length.ok THEN length ELSE
    IF ~list_length_ok(length.val)
    THEN RErr(length.ch, invalid_string_length(as_usize(length.val)))
    ELSE Wrap(read_elems(e, length.ch, element_tag.val, length.val, <<>>), VList)

\* a mutant: the compound's terminating End byte is left in the channel
read_entries_keep_end(e, r, compound) ==
    LET tag_id == read_i8(e, r) IN
    IF ~tag_id.ok THEN tag_id ELSE
    LET t == try_from(i8_as_u8(tag_id.val)) IN
    IF ~t.ok THEN RErr(tag_id.ch, t.err) ELSE
    IF t.val = "End" THEN ROk(r, VCompound(compound)) ELSE
    LET nm == read_string(e, tag_id.ch) IN
    IF ~nm.ok THEN nm ELSE
    LET x == read_value(e, nm.ch, t.val) IN
    IF ~x.ok THEN x ELSE read_entries(e, x.ch, map_insert(compound, nm.val, x.val))

\* one turn of read_compound's loop, then the rest
read_entries(e, r, compound) ==
    LET tag_id == read_i8(e, r) IN
    IF ~tag_id.ok THEN tag_id ELSE
    LET t == try_from(i8_as_u8(tag_id.val)) IN
    IF ~t.ok THEN RErr(tag_id.ch, t.err) ELSE
    IF t.val = "End" THEN ROk(tag_id.ch, VCompound(compound)) ELSE
    LET nm == read_string(e, tag_id.ch) IN
    IF ~nm.ok THEN nm ELSE
    LET x == read_value(e, nm.ch, t.val) IN
    IF ~x.ok THEN x ELSE read_entries(e, x.ch, map_insert(compound, nm.val, x.val))

read_compound(e, r) == read_entries(e, r, <<>>)

RECURSIVE write_value(_, _, _), write_list(_, _, _), write_compound(_, _, _),
          write_elems(_, _, _), write_entries(_, _, _)

write_value(e, w, value) ==
    CASE value.kind = "End" -> WOk(w)
      [] value.kind = "Byte" -> write_i8(e, w, value.v[1])
      [] value.kind = "Short" -> write_i16(e, w, value.v[1])
      [] value.kind = "Int" -> write_i32(e, w, value.v[1])
      [] value.kind = "Long" -> write_i64(e, w, value.v)
      [] value.kind = "Float" -> write_f32(e, w, value.v)
      [] value.kind = "Double" -> write_f64(e, w, value.v)
      [] value.kind = "ByteArray" -> write_byte_array(e, w, value.v)
      [] value.kind = "String" -> write_string(e, w, value.v)
      [] value.kind = "IntArray" -> write_int_array(e, w, value.v)
      [] value.kind = "LongArray" -> write_long_array(e, w, value.v)
      [] value.kind = "List" -> write_list(e, w, value)
      [] value.kind = "Compound" -> write_compound(e, w, value)

\* for value in list { self.write_value(writer, value)?; }
write_elems(e, w, list) ==
    IF list = <<>> THEN WOk(w) ELSE
    LET a == write_value(e, w, Head(list)) IN
    IF ~a.ok THEN a ELSE write_elems(e, a.ch, Tail(list))

write_list(e, w, value) ==
    IF value.kind # "List" THEN WErr(w, invalid_tag_id(as_u8(tag(value)))) ELSE
    LET list == value.v IN
    IF list = <<>>
    THEN LET a == write_i8(e, w, u8_as_i8_tag("End")) IN
         IF ~a.ok THEN a ELSE write_i32(e, a.ch, 0)
    ELSE
    LET first_tag == tag(list[1])
        i == first_mismatch(list)
    IN  IF i # 0
        THEN WErr(w, custom_msg(mismatch_msg(i - 1, first_tag, tag(list[i]))))
        ELSE
        LET a == write_i8(e, w, u8_as_i8_tag(first_tag)) IN
        IF ~a.ok THEN a ELSE
        LET b == write_i32(e, a.ch, Len(list)) IN
        IF ~b.ok THEN b ELSE write_elems(e, b.ch, list)

\* for (name, val) in map { ... }
write_entries(e, w, map) ==
    IF map = <<>> THEN WOk(w) ELSE
    LET a == write_i8(e, w, u8_as_i8_tag(tag(Head(map)[2]))) IN
    IF ~a.ok THEN a ELSE
    LET b == write_string(e, a.ch, Head(map)[1]) IN
    IF ~b.ok THEN b ELSE
    LET c == write_value(e, b.ch, Head(map)[2]) IN
    IF ~c.ok THEN c ELSE write_entries(e, c.ch, Tail(map))

write_compound(e, w, value) ==
    IF value.kind # "Compound" THEN WErr(w, invalid_tag_id(as_u8(tag(value)))) ELSE
    LET a == write_entries(e, w, value.v) IN
    IF ~a.ok THEN a ELSE write_i8(e, a.ch, u8_as_i8_tag("End"))

-----------------------------------------------------------------------------
(* Named entries.  Option<Cow<str>>: None, or Some(s).                     *)

None == [some |-> FALSE, s |-> <<>>]
Some(s) == [some |-> TRUE, s |-> s]

read_tag(e, r) ==
    LET id == read_u8(e, r) IN
    IF ~id.ok THEN id ELSE
    LET t == try_from(id.val) IN
    IF ~t.ok THEN RErr(id.ch, t.err) ELSE
    LET nm == read_string(e, id.ch) IN
    IF ~nm.ok THEN nm ELSE
    LET name_opt == IF nm.val # <<>> THEN Some(nm.val) ELSE None
        value == read_value(e, nm.ch, t.val)
    IN  IF ~value.ok THEN value ELSE ROk(value.ch, <<name_opt, value.val>>)

write_tag(e, w, nm, value) ==
    LET a == write_u8(e, w, as_u8(tag(value))) IN
    IF ~a.ok THEN a ELSE
    LET wraped_name == IF nm.some THEN nm.s ELSE <<>>
        b == write_string(e, a.ch, wraped_name)
    IN  IF ~b.ok THEN b ELSE write_value(e, b.ch, value)

-----------------------------------------------------------------------------
(* Value builders (src/src/value.rs).                                      *)

compound == VCompound(<<>>)
list(capacity) == VList(<<>>)
list_from_iter(iter) == VList(iter)

AOk(v) == [ok |-> TRUE, self |-> v, err |-> NoErr]
AErr(v, e) == [ok |-> FALSE, self |-> v, err |-> e]

\* Value::insert: the outcome and the value afterwards
insert(self, key, value) ==
    IF self.kind = "Compound"
    THEN AOk(VCompound(map_insert(self.v, key, value)))
    ELSE AErr(self, custom_msg("Not a compound"))

\* Value::push
push(self, value) ==
    IF self.kind = "List"
    THEN AOk(VList(Append(self.v, value)))
    ELSE AErr(self, custom_msg("Not a list"))

\* Value::extend
extend(self, iter) ==
    IF self.kind = "List"
    THEN AOk(VList(self.v \o iter))
    ELSE AErr(self, custom_msg("Not a list"))

\* #[derive(PartialEq)] for Value, with floating-point payloads compared by
\* bit pattern
RECURSIVE SameValue(_, _)
SameValue(a, b) ==
    /\ a.kind = b.kind
    /\ Len(a.v) = Len(b.v)
    /\ CASE a.kind = "List" -> \A i \in 1..Len(a.v) : SameValue(a.v[i], b.v[i])
         [] a.kind = "Compound" ->
                \A i \in 1..Len(a.v) : /\ a.v[i][1] = b.v[i][1]
                                       /\ SameValue(a.v[i][2], b.v[i][2])
         [] OTHER -> a.v = b.v

-----------------------------------------------------------------------------
(* Inputs.  Tuples rather than sets: the values are of unlike shapes.      *)

\* "BSTVVL", "a", and U+00E9 (two bytes of UTF-8)
BSTVVL == <<66, 83, 84, 86, 86, 76>>
StrA == <<97>>
StrEAcute == <<195, 169>>

I32Min == (-2147483647) - 1

\* the list of the codec's own test: list_from_iter(vec![6969, 696969])
TestList == VList(<<VInt(6969), VInt(696969)>>)

\* what push, extend, list_from_iter and insert are given
Elems == <<VEnd, VByte(-1), VInt(6969), VString(StrA), VList(<<>>)>>

\* keys given to insert
Keys == <<<<>>, StrA>>

\* values the caller makes directly from the variants
Samples == <<
    VEnd,
    VByte(-128), VByte(127),
    VShort(-2), VShort(258), VShort(-32768),
    VInt(I32Min), VInt(2147483647), VInt(-1), VInt(696969),
    VLong(<<255, 254, 253, 252, 251, 250, 249, 248>>),
    VLong(<<0, 0, 0, 0, 0, 0, 1, 2>>),
    VFloat(<<63, 128, 0, 0>>), VFloat(<<127, 192, 0, 0>>),
    VDouble(<<192, 9, 33, 251, 84, 68, 45, 24>>),
    VByteArray(<<>>), VByteArray(<<-1, 0, 127, -128>>),
    VString(<<>>), VString(StrEAcute \o StrA),
    VIntArray(<<>>), VIntArray(<<1, -1, I32Min>>),
    VLongArray(<<>>), VLongArray(<< <<1, 2, 3, 4, 5, 6, 7, 8>>, <<128, 0, 0, 0, 0, 0, 0, 0>> >>),
    VList(<<>>),
    TestList,
    VList(<<VEnd, VEnd, VEnd>>),
    VList(<<VString(StrA), VString(<<>>), VString(BSTVVL)>>),
    VList(<<VList(<<>>), VList(<<VByte(1)>>), VList(<<>>)>>),
    VList(<<VCompound(<<>>), VCompound(<< <<StrA, VShort(7)>> >>)>>),
    VList(<<VInt(1), VInt(2), VByte(3), VString(StrA)>>),
    VList(<<VByte(1), VShort(1)>>),
    VList(<<VList(<<VInt(1)>>), VList(<<VInt(1), VLong(<<0, 0, 0, 0, 0, 0, 0, 1>>)>>)>>),
    VCompound(<<>>),
    VCompound(<< <<BSTVVL, TestList>> >>),
    VCompound(<< <<StrA, VList(<<>>)>> >>),
    VCompound(<< <<<<>>, VByte(1)>>, <<StrA, VCompound(<< <<StrA, VIntArray(<<5>>)>> >>)>> >>),
    VCompound(<< <<StrA, VEnd>>, <<StrEAcute, VInt(3)>> >>),
    VCompound(<< <<StrA, VList(<<VInt(1), VByte(2)>>)>> >>)
  >>

\* trees written one after another to one channel: every framing shape
\* (no payload, fixed width, length-prefixed, counted, terminated), a list
\* that mixes kinds and a compound with an End member
Entries == <<
    VEnd,
    VByte(-128),
    VString(StrEAcute \o StrA),
    VList(<<>>),
    VList(<<VEnd, VEnd, VEnd>>),
    TestList,
    VIntArray(<<1, -1, I32Min>>),
    VCompound(<<>>),
    VCompound(<< <<<<>>, VByte(1)>>, <<StrA, VCompound(<< <<StrA, VIntArray(<<5>>)>> >>)>> >>),
    VList(<<VByte(1), VShort(1)>>),
    VCompound(<< <<StrA, VEnd>>, <<StrEAcute, VInt(3)>> >>)
  >>

\* names of the entries written one after another: absent (an empty name
\* on the wire) and present
EntryNames == <<None, Some(BSTVVL)>>

\* names given to write_tag
Names == <<None, Some(<<>>), Some(BSTVVL)>>

\* strings given to write_string: short ones, and the lengths around u16::MAX
Repeat(b, n) == [i \in 1..n |-> b]
ShortStrings == <<<<>>, StrA, BSTVVL, StrEAcute>>
LongLengths == (U16Max - 1)..(U16Max + MaxOver)

\* raw input for read_tag: malformed, truncated or unusual documents (the
\* multi-byte fields are laid out for the byte order named first)
RawSamples == <<
    [e |-> "Big", b |-> <<>>],
    [e |-> "Big", b |-> <<13, 0, 0>>],
    [e |-> "Big", b |-> <<255, 0, 0>>],
    [e |-> "Big", b |-> <<1, 0>>],
    [e |-> "Big", b |-> <<1, 0, 1, 255, 5>>],
    [e |-> "Big", b |-> <<8, 0, 0, 0, 2, 195, 40>>],
    [e |-> "Big", b |-> <<8, 0, 0, 0, 3, 237, 160, 128>>],
    [e |-> "Big", b |-> <<8, 0, 0, 0, 2, 195, 169, 1>>],
    [e |-> "Big", b |-> <<9, 0, 0, 3, 0, 0, 128, 0, 1, 2, 3, 4>>],
    [e |-> "Big", b |-> <<9, 0, 0, 1, 0, 0, 127, 255, 7>>],
    [e |-> "Big", b |-> <<9, 0, 0, 1, 255, 255, 255, 255, 7>>],
    [e |-> "Big", b |-> <<9, 0, 0, 14, 0, 0, 0, 1>>],
    [e |-> "Big", b |-> <<9, 0, 0, 3, 0, 0, 0, 2, 0, 0, 0, 1>>],
    [e |-> "Big", b |-> <<10, 0, 0, 3, 0, 1, 97, 0, 0, 0, 1, 3, 0, 1, 97, 0, 0, 0, 2, 0>>],
    [e |-> "Big", b |-> <<10, 0, 0, 3, 0, 1, 97, 0, 0, 0, 1>>],
    [e |-> "Big", b |-> <<10, 0, 0, 9, 0, 1, 97, 10, 0, 0, 0, 1, 10, 0, 1, 98, 99, 0>>],
    [e |-> "Big", b |-> <<10, 0, 0, 9, 0, 1, 97, 8, 0, 0, 0, 1, 0, 1, 255, 0>>],
    [e |-> "Big", b |-> <<10, 0, 0, 1, 0, 0, 5, 0, 0, 1, 0, 0, 6, 0>>],
    [e |-> "Big", b |-> <<11, 0, 0, 0, 0, 0, 2, 0, 0, 0, 1, 0, 0>>],
    [e |-> "Big", b |-> <<12, 0, 0, 0, 0, 0, 1, 1, 2, 3, 4, 5, 6, 7>>],
    [e |-> "Big", b |-> <<7, 0, 0, 0, 0, 0, 3, 255, 1>>],
    [e |-> "Big", b |-> <<0, 0, 0, 9, 9>>],
    [e |-> "Little", b |-> <<9, 6, 0, 66, 83, 84, 86, 86, 76, 3, 2, 0, 0, 0,
                             57, 27, 0, 0, 9, 169, 10, 0>>],
    [e |-> "Little", b |-> <<9, 6, 0, 66, 83, 84, 86, 86, 76, 3, 2, 0, 0, 0,
                             57, 27, 0, 0, 137, 162, 10, 0>>]
  >>

\* list headers for read_list: any element-type byte, these counts, and
\* these bytes after the header
Counts == {I32Min, -32768, -1, 0, 1, 2, 32768, 65536, 2147483647}
Trailers == <<<<>>, <<7>>, <<1, 2, 0, 0, 0, 0, 0, 0>>>>
HeaderTags == 0..13

-----------------------------------------------------------------------------
(* The caller.                                                             *)

NoHist == [i \in 1..Len(Keys) |-> <<>>]
NoCall == [ok |-> TRUE, err |-> NoErr]
NoWrite == WOk(Writer(-1))
NoRead == ROk(Reader(<<>>, FALSE), <<>>)
NoRaw == <<>>
NoTag == [ok |-> FALSE, val |-> "", err |-> NoErr]

Init ==
    /\ endian \in {"Big", "Little"}
    /\ pc = "idle"
    /\ val = VEnd
    /\ origin = "direct"
    /\ hist = NoHist
    /\ ares = NoCall
    /\ name = None
    /\ wres = NoWrite
    /\ rres = NoRead
    /\ raw = NoRaw
    /\ tagIn = 0
    /\ tres = NoTag
    /\ sent = <<>>
    /\ reads = <<>>

Stream == <<sent, reads>>
\* the writer that receives the consecutive entries, as the last write_tag left it
chan == IF sent = <<>> THEN Writer(-1) ELSE sent[Len(sent)].res.ch
Codec == <<name, wres, rres, raw, tagIn, tres, Stream>>
Held == <<val, origin, hist, ares>>

\* the caller has built no tree (the calls below that take raw input do not
\* read val: they are made by a caller that holds none)
HoldsNothing == val.kind = "End" /\ origin = "direct" /\ ares.ok

\* the caller makes a value from the variants
NewValue ==
    /\ pc = "idle"
    /\ \E i \in 1..Len(Samples) : val' = Samples[i]
    /\ origin' = "direct"
    /\ hist' = NoHist
    /\ ares' = NoCall
    /\ UNCHANGED <<endian, pc, Codec>>

\* Value::compound()
NewCompound ==
    /\ pc = "idle"
    /\ val' = compound
    /\ origin' = "compound"
    /\ hist' = NoHist
    /\ ares' = NoCall
    /\ UNCHANGED <<endian, pc, Codec>>

\* the tree was begun by compound(), list() or list_from_iter(): the
\* caller grows only such trees
Begun == origin # "direct"

\* val.insert(key, value)
Insert ==
    /\ pc = "idle"
    /\ Begun
    /\ \E k \in 1..Len(Keys), i \in 1..Len(Elems) :
         LET res == insert(val, Keys[k], Elems[i]) IN
         /\ val' = res.self
         /\ ares' = [ok |-> res.ok, err |-> res.err]
         /\ hist' = IF res.ok
                    THEN [hist EXCEPT ![k] = <<[v |-> Elems[i], again |-> hist[k] # <<>>]>>]
                    ELSE hist
    /\ UNCHANGED <<endian, pc, origin, Codec>>

\* Value::list(capacity)
NewList ==
    /\ pc = "idle"
    /\ \E capacity \in 0..MaxListLen : val' = list(capacity)
    /\ origin' = "list"
    /\ hist' = NoHist
    /\ ares' = NoCall
    /\ UNCHANGED <<endian, pc, Codec>>

\* the sequences of at most n builder elements
Iters(n) == UNION {[1..m -> 1..Len(Elems)] : m \in 0..n}
Items(f) == [i \in 1..Len(f) |-> Elems[f[i]]]

\* Value::list_from_iter(iter)
ListFromIter ==
    /\ pc = "idle"
    /\ \E f \in Iters(MaxListLen) : val' = list_from_iter(Items(f))
    /\ origin' = "list"
    /\ hist' = NoHist
    /\ ares' = NoCall
    /\ UNCHANGED <<endian, pc, Codec>>

\* val.push(value)
Push ==
    /\ pc = "idle"
    /\ Begun
    /\ val.kind = "List" => Len(val.v) < MaxListLen
    /\ \E i \in 1..Len(Elems) :
         LET res == push(val, Elems[i]) IN
         /\ val' = res.self
         /\ ares' = [ok |-> res.ok, err |-> res.err]
    /\ UNCHANGED <<endian, pc, origin, hist, Codec>>

\* val.extend(iter)
Extend ==
    /\ pc = "idle"
    /\ Begun
    /\ \E f \in Iters(MaxListLen) :
         /\ val.kind = "List" => Len(val.v) + Len(f) <= MaxListLen
         /\ LET res == extend(val, Items(f)) IN
            /\ val' = res.self
            /\ ares' = [ok |-> res.ok, err |-> res.err]
    /\ UNCHANGED <<endian, pc, origin, hist, Codec>>

Caps == {-1} \cup 0..MaxCap

\* codec.write_tag(&mut writer, name, &val) on a fresh writer
WriteTag ==
    /\ pc = "idle"
    /\ \E n \in 1..Len(Names), cap \in Caps :
         /\ name' = Names[n]
         /\ wres' = write_tag(endian, Writer(cap), Names[n], val)
    /\ pc' = "write_tag"
    /\ UNCHANGED <<endian, Held, rres, raw, tagIn, tres, Stream>>

\* codec.read_tag(&mut reader) on the bytes a successful write_tag produced
ReadTag ==
    /\ pc = "write_tag"
    /\ wres.ok
    /\ rres' = read_tag(endian, Reader(wres.ch.out, FALSE))
    /\ pc' = "read_tag"
    /\ UNCHANGED <<endian, Held, name, wres, raw, tagIn, tres, Stream>>

\* codec.read_tag(&mut reader) on a document cut short
ReadTruncated ==
    /\ pc = "write_tag"
    /\ wres.ok
    /\ \E n \in 0..(Len(wres.ch.out) - 1), drain \in BOOLEAN :
         rres' = read_tag(endian, Reader(SubSeq(wres.ch.out, 1, n), drain))
    /\ pc' = "read_cut"
    /\ UNCHANGED <<endian, Held, name, wres, raw, tagIn, tres, Stream>>

\* codec.read_tag(&mut reader) on arbitrary bytes
ReadRaw ==
    /\ pc = "idle"
    /\ HoldsNothing
    /\ \E i \in 1..Len(RawSamples), drain \in BOOLEAN :
         /\ RawSamples[i].e = endian
         /\ raw' = RawSamples[i].b
         /\ rres' = read_tag(endian, Reader(RawSamples[i].b, drain))
    /\ pc' = "read_raw"
    /\ UNCHANGED <<endian, Held, name, wres, tagIn, tres, Stream>>

\* codec.read_list(&mut reader) on a list header and what follows it
ReadList ==
    /\ pc = "idle"
    /\ HoldsNothing
    /\ \E t \in HeaderTags, c \in Counts, x \in 1..Len(Trailers), drain \in BOOLEAN :
         /\ raw' = [t |-> t, c |-> c, rest |-> Trailers[x]]
         /\ LET d == SignedDigits(c, 4)
                count == IF endian = "Big" THEN d ELSE Reverse(d) IN
            rres' = read_list(endian, Reader(<<t>> \o count \o Trailers[x], drain))
    /\ pc' = "read_list"
    /\ UNCHANGED <<endian, Held, name, wres, tagIn, tres, Stream>>

\* codec.write_list(&mut writer, &val) on a fresh writer
WriteList ==
    /\ pc = "idle"
    /\ \E cap \in Caps : wres' = write_list(endian, Writer(cap), val)
    /\ pc' = "write_list"
    /\ UNCHANGED <<endian, Held, name, rres, raw, tagIn, tres, Stream>>

\* codec.write_string(&mut writer, s) on a fresh writer
WriteString ==
    /\ pc = "idle"
    /\ HoldsNothing
    /\ \/ \E cap \in Caps, i \in 1..Len(ShortStrings) :
              /\ raw' = ShortStrings[i]
              /\ wres' = write_string(endian, Writer(cap), ShortStrings[i])
       \/ \E n \in LongLengths :
              /\ raw' = Repeat(97, n)
              /\ wres' = write_string(endian, Writer(-1), Repeat(97, n))
    /\ pc' = "write_string"
    /\ UNCHANGED <<endian, Held, name, rres, tagIn, tres, Stream>>

\* Tag::try_from(byte)
TryFrom ==
    /\ pc = "idle"
    /\ HoldsNothing
    /\ \E d \in 0..255 :
         /\ tagIn' = d
         /\ tres' = try_from(d)
    /\ pc' = "try_from"
    /\ UNCHANGED <<endian, Held, name, wres, rres, raw, Stream>>

\* the call has returned and its outcome is dropped
Return ==
    /\ pc # "idle"
    /\ pc' = "idle"
    /\ name' = None
    /\ wres' = NoWrite
    /\ rres' = NoRead
    /\ raw' = NoRaw
    /\ tagIn' = 0
    /\ tres' = NoTag
    /\ sent' = <<>>
    /\ reads' = <<>>
    /\ UNCHANGED <<endian, Held>>

\* codec.write_tag(&mut writer, name, &value) on the writer that already
\* holds the entries written before
WriteNext ==
    /\ \/ pc = "idle" /\ HoldsNothing
       \/ pc = "stream_w"
    /\ Len(sent) < MaxEntries
    \* the caller unwraps each outcome: it writes no more after a failure
    /\ \A i \in 1..Len(sent) : sent[i].res.ok
    /\ \E i \in 1..Len(Entries), j \in 1..Len(EntryNames), w \in {chan} :
         sent' = Append(sent, [name |-> EntryNames[j], value |-> Entries[i],
                               res |-> write_tag(endian, w, EntryNames[j], Entries[i])])
    /\ pc' = "stream_w"
    /\ UNCHANGED <<endian, Held, name, wres, rres, raw, tagIn, tres, reads>>

\* codec.read_tag(&mut reader) on the reader that earlier read_tag calls
\* have advanced; the first call opens the reader over the written bytes
ReadNext ==
    /\ pc \in {"stream_w", "stream_r"}
    /\ Len(reads) < Len(sent)
    /\ \E drain \in BOOLEAN :
         /\ reads # <<>> => drain = reads[Len(reads)].ch.drain
         /\ \E r \in {IF reads = <<>> THEN Reader(chan.out, drain)
                                        ELSE reads[Len(reads)].ch} :
              reads' = Append(reads, read_tag(endian, r))
    /\ pc' = "stream_r"
    /\ UNCHANGED <<endian, Held, name, wres, rres, raw, tagIn, tres, sent>>

Next ==
    \/ NewValue \/ NewCompound \/ Insert
    \/ NewList \/ ListFromIter \/ Push \/ Extend
    \/ WriteTag \/ ReadTag \/ ReadTruncated \/ WriteList
    \/ ReadRaw \/ ReadList
    \/ WriteString
    \/ TryFrom
    \/ Return

Spec == Init /\ [][Next]_vars

\* a caller that writes entries one after another to one writer and then
\* reads them back one after another from one reader
NextStream == WriteNext \/ ReadNext \/ Return

SpecStream == Init /\ [][NextStream]_vars

-----------------------------------------------------------------------------
(* Properties.                                                             *)

\* every element of every list, at every depth, is of the first one's kind
RECURSIVE Homogeneous(_)
Homogeneous(v) ==
    CASE v.kind = "List" ->
            \A i \in 1..Len(v.v) : v.v[i].kind = v.v[1].kind /\ Homogeneous(v.v[i])
      [] v.kind = "Compound" -> \A i \in 1..Len(v.v) : Homogeneous(v.v[i][2])
      [] OTHER -> TRUE

\* strings and keys of at most 65535 bytes, lists of at most 32767 elements
RECURSIVE WithinLimits(_)
WithinLimits(v) ==
    CASE v.kind = "List" ->
            Len(v.v) <= I16Max /\ \A i \in 1..Len(v.v) : WithinLimits(v.v[i])
      [] v.kind = "Compound" ->
            \A i \in 1..Len(v.v) : Len(v.v[i][1]) <= U16Max /\ WithinLimits(v.v[i][2])
      [] v.kind = "String" -> Len(v.v) <= U16Max
      [] OTHER -> TRUE

\* no compound, at any depth, has a member whose value is End
RECURSIVE NoEndMember(_)
NoEndMember(v) ==
    CASE v.kind = "List" -> \A i \in 1..Len(v.v) : NoEndMember(v.v[i])
      [] v.kind = "Compound" ->
            \A i \in 1..Len(v.v) : v.v[i][2].kind # "End" /\ NoEndMember(v.v[i][2])
      [] OTHER -> TRUE

ValidTree(v) == Homogeneous(v) /\ WithinLimits(v)
NameOk(nm) == Len(nm.s) <= U16Max

\* read_tag gave back the name and the tree that write_tag was given
RoundTrip == /\ rres.ok
             /\ rres.val[1] = name
             /\ SameValue(rres.val[2], val)

\* C1 as stated: for every valid tree and every optional name, write_tag to
\* an unbounded writer succeeds and read_tag on its bytes returns the same
\* name and tree, under either byte order.
C1_RoundTripAnyName ==
    /\ (pc = "write_tag" /\ wres.ch.cap = -1 /\ ValidTree(val) /\ NameOk(name)) => wres.ok
    /\ (pc = "read_tag" /\ ValidTree(val) /\ NameOk(name)) => RoundTrip

\* C1 as amended: the round trip holds when the name is absent or not
\* empty and no compound of the tree has a member whose value is End.
C1_RoundTrip ==
    /\ (pc = "write_tag" /\ wres.ch.cap = -1 /\ ValidTree(val) /\ NameOk(name)) => wres.ok
    /\ (pc = "read_tag" /\ ValidTree(val) /\ NameOk(name)
          /\ (name.some => name.s # <<>>) /\ NoEndMember(val)) => RoundTrip

C1_Witness ==
    /\ pc = "read_tag" /\ endian = "Little"
    /\ name = Some(BSTVVL)
    /\ val.kind = "Compound" /\ Len(val.v) = 2 /\ val.v[2][2].kind = "Compound"
    /\ ValidTree(val) /\ NoEndMember(val)
    /\ RoundTrip

\* the bytes the claim gives, and the bytes of 6969 and 696969 (0x000AA289)
ClaimedBytes == <<9, 6, 0, 66, 83, 84, 86, 86, 76, 3, 2, 0, 0, 0,
                  57, 27, 0, 0, 9, 169, 10, 0>>
ScenarioBytes == <<9, 6, 0, 66, 83, 84, 86, 86, 76, 3, 2, 0, 0, 0,
                   57, 27, 0, 0, 137, 162, 10, 0>>

Scenario(bytes) ==
    /\ (pc = "write_tag" /\ endian = "Little" /\ wres.ch.cap = -1
          /\ name = Some(BSTVVL) /\ SameValue(val, TestList))
        => (wres.ok /\ wres.ch.out = bytes /\ Len(wres.ch.out) = 22)
    /\ (pc = "read_raw" /\ endian = "Little" /\ raw = bytes)
        => (/\ rres.ok
            /\ rres.val[1] = Some(BSTVVL)
            /\ SameValue(rres.val[2], TestList))

\* C2 as stated: little-endian write_tag of ("BSTVVL", List[Int(6969),
\* Int(696969)]) gives 09 0600 42535456564C 03 02000000 391B0000 09A90A00,
\* and read_tag on those bytes gives the name and the list back.
C2_ClaimedBytes == Scenario(ClaimedBytes)

\* C2 as amended: the last four bytes are 89 A2 0A 00; the 22 bytes are
\* what write_tag produces and read_tag on them gives the name and the list.
C2_Scenario == Scenario(ScenarioBytes)

C2_Witness ==
    /\ pc = "read_raw" /\ endian = "Little" /\ raw = ScenarioBytes
    /\ rres.ok /\ SameValue(rres.val[2], TestList)

\* the list v mixes kinds; the first index (from 1) that differs from v[1]
Hetero(v) == v.kind = "List" /\ \E i \in 1..Len(v.v) : v.v[i].kind # v.v[1].kind
FirstBad(v) == CHOOSE i \in 1..Len(v.v) :
                  /\ v.v[i].kind # v.v[1].kind
                  /\ \A j \in 1..(i - 1) : v.v[j].kind = v.v[1].kind
MismatchOf(v) == <<FirstBad(v) - 1, v.v[1].kind, v.v[FirstBad(v)].kind>>

\* C3: encoding a list that mixes kinds fails with a Custom failure naming
\* the first mismatching index, the kind of element 0 and the kind found
\* there; write_list writes nothing, and write_tag nothing after the
\* entry's tag byte and name.
C3_HeterogeneousRejected ==
    /\ (pc = "write_list" /\ Hetero(val))
        => (/\ ~wres.ok
            /\ wres.err.kind = "Custom"
            /\ wres.err.arg = MismatchOf(val)
            /\ wres.ch.out = <<>>)
    /\ (pc = "write_tag" /\ wres.ch.cap = -1 /\ Hetero(val))
        => (/\ ~wres.ok
            /\ wres.err.kind = "Custom"
            /\ wres.err.arg = MismatchOf(val)
            /\ Len(wres.ch.out) = 1 + 2 + Len(name.s))
    /\ (pc = "write_tag" /\ wres.ch.cap = -1 /\ ~Homogeneous(val))
        => (~wres.ok /\ wres.err.kind = "Custom")

C3_Witness ==
    /\ pc = "write_list" /\ Hetero(val) /\ FirstBad(val) = 3 /\ Len(val.v) = 4
    /\ val.v[4].kind # val.v[3].kind
    /\ ~wres.ok /\ wres.ch.out = <<>>

\* C4: a list header with a valid element-type byte and a count below 0 or
\* above 32767 makes read_list fail with InvalidStringLength, having
\* consumed the 5 header bytes and nothing after them, and give no list.
C4_ListCountBounds ==
    (pc = "read_list" /\ raw.t \in 0..12 /\ (raw.c < 0 \/ raw.c > 32767))
        => (/\ ~rres.ok
            /\ rres.err.kind = "InvalidStringLength"
            /\ rres.ch.pos = 5
            /\ rres.val = <<>>)

C4_Witness ==
    /\ pc = "read_list" /\ raw.t = 3 /\ raw.c = 32768 /\ Len(raw.rest) = 8
    /\ ~rres.ok /\ rres.ch.pos = 5

\* C5: for d in 0..12 try_from(d) gives the kind whose discriminant is d,
\* and tag() of every value of that kind has discriminant d; for d in
\* 13..255 try_from(d) fails with InvalidTagID(d).
C5_TagBijection ==
    pc = "try_from" =>
        IF tagIn <= 12
        THEN /\ tres.ok
             /\ as_u8(tres.val) = tagIn
             /\ \A i \in 1..Len(Samples) :
                    Samples[i].kind = tres.val => as_u8(tag(Samples[i])) = tagIn
             /\ \E i \in 1..Len(Samples) : Samples[i].kind = tres.val
        ELSE /\ ~tres.ok
             /\ tres.err.kind = "InvalidTagID"
             /\ tres.err.arg = <<tagIn>>

C5_Witness == pc = "try_from" /\ tagIn = 12 /\ tres.ok /\ tres.val = "LongArray"

\* C6: a compound made by compound() and inserts holds, for each key
\* inserted, exactly one entry, whose value is the last one inserted under
\* that key, and no other entry.
C6_KeyUnique ==
    origin = "compound" =>
        /\ val.kind = "Compound"
        /\ \A k \in 1..Len(Keys) :
             LET hits == {i \in 1..Len(val.v) : val.v[i][1] = Keys[k]} IN
             IF hist[k] = <<>> THEN hits = {}
             ELSE /\ Cardinality(hits) = 1
                  /\ \A i \in hits : SameValue(val.v[i][2], hist[k][1].v)
        /\ Len(val.v) = Cardinality({k \in 1..Len(Keys) : hist[k] # <<>>})

C6_Witness ==
    /\ origin = "compound" /\ Len(val.v) = 2
    /\ hist[1] # <<>> /\ hist[1][1].again
    /\ val.v[1][2].kind = "Int"

IsEmptyList(v) == v.kind = "List" /\ v.v = <<>>
\* a list of empty lists, or a compound whose members are all empty lists
HoldsEmptyLists(v) ==
    \/ v.kind = "List" /\ v.v # <<>> /\ \A i \in 1..Len(v.v) : IsEmptyList(v.v[i])
    \/ v.kind = "Compound" /\ v.v # <<>> /\ \A i \in 1..Len(v.v) : IsEmptyList(v.v[i][2])
Suffix(s, n) == SubSeq(s, Len(s) - n + 1, Len(s))
Zeros(n) == [i \in 1..n |-> 0]

\* C7: under both byte orders an empty list is written as the End
\* discriminant and a count of 0, alone, at top level under any name, or
\* inside a list or compound, and is read back as an empty list.
C7_EmptyList ==
    /\ (pc = "write_list" /\ wres.ch.cap = -1 /\ IsEmptyList(val))
        => (wres.ok /\ wres.ch.out = Zeros(5))
    /\ (pc = "read_list" /\ raw.t = 0 /\ raw.c = 0)
        => (rres.ok /\ IsEmptyList(rres.val) /\ rres.ch.pos = 5)
    /\ (pc = "write_tag" /\ wres.ch.cap = -1 /\ IsEmptyList(val))
        => (wres.ok /\ wres.ch.out = <<9>> \o (IF endian = "Big" THEN <<0, Len(name.s)>>
                                        ELSE <<Len(name.s), 0>>)
                                 \o name.s \o Zeros(5))
    /\ (pc = "write_tag" /\ wres.ch.cap = -1 /\ HoldsEmptyLists(val))
        => (/\ wres.ok
            /\ Suffix(wres.ch.out, IF val.kind = "List" THEN 5 ELSE 6)
                 = Zeros(IF val.kind = "List" THEN 5 ELSE 6))
    /\ (pc = "read_tag" /\ (IsEmptyList(val) \/ HoldsEmptyLists(val)))
        => (rres.ok /\ SameValue(rres.val[2], val))

C7_Witness ==
    /\ pc = "read_tag" /\ val.kind = "Compound" /\ HoldsEmptyLists(val)
    /\ name.some /\ rres.ok /\ IsEmptyList(rres.val[2].v[1][2])

\* C8: whenever write_string succeeds, its output is a 2-byte length in the
\* configured byte order followed by the string's bytes, and the length
\* written equals the number of bytes after it and is at most 65535.
C8_StringFraming ==
    (pc = "write_string" /\ wres.ok) =>
        LET out == wres.ch.out
            prefix == IF endian = "Big" THEN out[1] * 256 + out[2]
                      ELSE out[2] * 256 + out[1]
        IN  /\ Len(out) >= 2
            /\ prefix = Len(out) - 2
            /\ Len(out) - 2 <= 65535
            /\ SubSeq(out, 3, Len(out)) = raw

\* the framing does hold for strings of at most 65535 bytes
C8_FramingWithinU16 ==
    (pc = "write_string" /\ wres.ok /\ Len(raw) <= U16Max) =>
        LET out == wres.ch.out
            prefix == IF endian = "Big" THEN out[1] * 256 + out[2]
                      ELSE out[2] * 256 + out[1]
        IN  prefix = Len(out) - 2 /\ SubSeq(out, 3, Len(out)) = raw

Decoded == IF pc = "read_list" THEN rres.val ELSE rres.val[2]
ReadDone == pc \in {"read_tag", "read_cut", "read_raw", "read_list"}

\* C9 as stated: every tree decoded from bytes, and every tree made by
\* list / list_from_iter and then push / extend, has only homogeneous lists.
C9_AllListsHomogeneous ==
    /\ (ReadDone /\ rres.ok) => Homogeneous(Decoded)
    /\ origin = "list" => Homogeneous(val)

\* C9 as amended: every tree decoded from bytes has only homogeneous lists.
C9_DecodedHomogeneous == (ReadDone /\ rres.ok) => Homogeneous(Decoded)

C9_Witness ==
    /\ pc = "read_raw" /\ rres.ok
    /\ Decoded.kind = "List" /\ Len(Decoded.v) = 2 /\ Decoded.v[2].kind = "Int"

WriteDone == pc \in {"write_tag", "write_list", "write_string"}

\* the call's outcome is the first failure raised under it, if any, and
\* the channel was not used after that failure
Propagated(res) ==
    /\ res.ok <=> res.ch.fail = <<>>
    /\ ~res.ok => /\ res.err.kind = res.ch.fail[1].kind
                  /\ res.err = res.ch.fail[1]
                  /\ res.ch.after = 0

\* C10: a read or write call in which a step fails, at any depth, returns
\* that failure unchanged, returns no tree, and does not use the channel
\* after the failing step; a call in which no step fails succeeds.
C10_FailurePropagates ==
    /\ WriteDone => Propagated(wres)
    /\ ReadDone => (Propagated(rres) /\ (~rres.ok => rres.val = <<>>))

C10_Witness ==
    /\ pc = "read_raw" /\ Len(raw) > 0 /\ raw[1] = 10
    /\ ~rres.ok /\ rres.err.kind = "FromUTF8" /\ rres.ch.pos = 15

\* the i-th entry written is within the format's limits
Clean(i) == /\ ValidTree(sent[i].value)
            /\ NoEndMember(sent[i].value)
            /\ NameOk(sent[i].name)

\* C11: when every entry written to one channel has homogeneous lists,
\* strings and lists within the limits and no End member in a compound,
\* every write_tag succeeds, the i-th read_tag on the channel succeeds, returns
\* the i-th value written and stops at the offset where the i-th write_tag
\* stopped, and after as many reads as writes the channel is exhausted.
C11_SelfDelimiting ==
    (\A i \in 1..Len(sent) : Clean(i)) =>
        /\ \A i \in 1..Len(sent) : sent[i].res.ok
        /\ \A i \in 1..Len(reads) :
              /\ reads[i].ok
              /\ SameValue(reads[i].val[2], sent[i].value)
              /\ reads[i].ch.pos = Len(sent[i].res.ch.out)
        /\ (pc = "stream_r" /\ Len(reads) = Len(sent)) =>
              /\ reads[Len(reads)].ch.buf = chan.out
              /\ reads[Len(reads)].ch.pos = Len(chan.out)

C11_Witness ==
    /\ pc = "stream_r" /\ Len(sent) = 2 /\ Len(reads) = 2
    /\ Clean(1) /\ Clean(2)
    /\ sent[1].value.kind = "Compound" /\ Len(sent[1].value.v) = 2
    /\ sent[2].value.kind = "List" /\ Len(sent[2].value.v) = 3
    /\ reads[1].ok /\ reads[2].ok
    /\ reads[2].ch.pos = Len(chan.out) /\ reads[1].ch.pos < reads[2].ch.pos

====
